---- MODULE Spec2Model ----
(***************************************************************************)
(* A model of server.mjs (audio2video): the subtitle time codec, the SRT   *)
(* serializer, the uniform cue allocator of /api/align-subtitle, the       *)
(* colour translator and command construction of /api/generate-video, the  *)
(* request signer, and the cover handlers that share outputs/images.       *)
(*                                                                         *)
(* A JavaScript string is modelled as a sequence of one-character strings  *)
(* (fixed literal fragments that hold no quote, separator or newline are   *)
(* kept as one element).  Date.now() is the variable now.                  *)
(***************************************************************************)
EXTENDS Integers, Sequences, FiniteSets

VARIABLES
    fn,         \* the pure function a harness behaviour applies
    arg,        \* its argument
    ret,        \* the values it returned, oldest first
    alignRes,   \* the last response of /api/align-subtitle
    now,        \* Date.now(), in milliseconds
    authLog,    \* the calls of generateAuthHeaders and what each returned
    videoLog,   \* the first and the latest /api/generate-video request handled
    videoFiles, \* the paths that exist under outputs/videos
    coverFiles, \* the files of outputs/images, each with the request that wrote it
    coverLog,   \* the /api/generate-cover requests handled, oldest first
    requests    \* how many cover requests the server has handled

vars ==
    <<fn, arg, ret, alignRes, now, authLog, videoLog, videoFiles,
      coverFiles, coverLog, requests>>

coverVars == <<coverFiles, coverLog, requests>>

\* undefined, where a string is expected (a field absent from the request body)
Absent == <<"undefined">>

(***************************************************************************)
(* Strings                                                                 *)
(***************************************************************************)

Digits == <<"0", "1", "2", "3", "4", "5", "6", "7", "8", "9">>

\* Number.prototype.toString() of an integer
RECURSIVE NumToString(_)
NumToString(n) ==
    IF n < 0 THEN <<"-">> \o NumToString(-n)
    ELSE IF n < 10 THEN <<Digits[n + 1]>>
    ELSE NumToString(n \div 10) \o <<Digits[(n % 10) + 1]>>

\* String.prototype.padStart(len, ch)
RECURSIVE PadStart(_, _, _)
PadStart(s, len, ch) ==
    IF Len(s) >= len THEN s ELSE PadStart(<<ch>> \o s, len, ch)

IsSpace(c) == c \in {" ", "\n", "\t"}

RECURSIVE TrimStart(_)
TrimStart(s) ==
    IF s # <<>> /\ IsSpace(Head(s)) THEN TrimStart(Tail(s)) ELSE s

RECURSIVE TrimEnd(_)
TrimEnd(s) ==
    IF s # <<>> /\ IsSpace(s[Len(s)]) THEN TrimEnd(SubSeq(s, 1, Len(s) - 1)) ELSE s

\* String.prototype.trim()
Trim(s) == TrimEnd(TrimStart(s))

\* String.prototype.startsWith(p)
StartsWith(s, p) == Len(p) <= Len(s) /\ SubSeq(s, 1, Len(p)) = p

\* String.prototype.substring(a, b) with 0 <= a <= b (indices past the end are clamped)
Substring(s, a, b) ==
    LET lo == IF a > Len(s) THEN Len(s) ELSE a
        hi == IF b > Len(s) THEN Len(s) ELSE b
    IN  SubSeq(s, lo + 1, hi)

\* the concatenation of a sequence of strings
RECURSIVE Flatten(_)
Flatten(ss) == IF ss = <<>> THEN <<>> ELSE Head(ss) \o Flatten(Tail(ss))

(***************************************************************************)
(* Time codec: msToSrtTime                                                 *)
(***************************************************************************)

MsPerHour == 3600000
MsPerMinute == 60000
MsPerSecond == 1000

\* JavaScript's %: the result takes the sign of the dividend
JsMod(a, b) == IF a >= 0 THEN a % b ELSE -((-a) % b)

\* a plausible slip: the minutes taken without the modulus of the hour
msToSrtTimeNoHourMod(ms0) ==
    LET ms == IF ms0 < 0 THEN 0 ELSE ms0
        hours == ms \div MsPerHour
        minutes == ms \div MsPerMinute
        seconds == JsMod(ms, MsPerMinute) \div MsPerSecond
        milliseconds == JsMod(ms, MsPerSecond)
    IN  PadStart(NumToString(hours), 2, "0") \o <<":">>
            \o PadStart(NumToString(minutes), 2, "0") \o <<":">>
            \o PadStart(NumToString(seconds), 2, "0") \o <<",">>
            \o PadStart(NumToString(milliseconds), 3, "0")

msToSrtTime(ms0) ==
    LET ms == IF ms0 < 0 THEN 0 ELSE ms0
        hours == ms \div MsPerHour
        minutes == JsMod(ms, MsPerHour) \div MsPerMinute
        seconds == JsMod(ms, MsPerMinute) \div MsPerSecond
        milliseconds == JsMod(ms, MsPerSecond)
    IN  PadStart(NumToString(hours), 2, "0") \o <<":">>
            \o PadStart(NumToString(minutes), 2, "0") \o <<":">>
            \o PadStart(NumToString(seconds), 2, "0") \o <<",">>
            \o PadStart(NumToString(milliseconds), 3, "0")

(***************************************************************************)
(* Subtitle serializer: generateSRT                                        *)
(***************************************************************************)

\* what one iteration of the loop appends to srtContent
SrtBlock(index, utterance) ==
    NumToString(index) \o <<"\n">>
        \o msToSrtTime(utterance.start_time) \o <<" --> ">>
        \o msToSrtTime(utterance.end_time) \o <<"\n">>
        \o Trim(utterance.text) \o <<"\n", "\n">>

\* a plausible slip: index++ outside the if, so a dropped utterance uses a number
RECURSIVE SrtLoopCountAll(_, _)
SrtLoopCountAll(utterances, index) ==
    IF utterances = <<>> THEN <<>>
    ELSE IF Trim(Head(utterances).text) # <<>>
         THEN <<SrtBlock(index, Head(utterances))>>
                  \o SrtLoopCountAll(Tail(utterances), index + 1)
         ELSE SrtLoopCountAll(Tail(utterances), index + 1)

\* the for loop of generateSRT from the given index on: the blocks it appends
RECURSIVE SrtLoop(_, _)
SrtLoop(utterances, index) ==
    IF utterances = <<>> THEN <<>>
    ELSE IF Trim(Head(utterances).text) # <<>>
         THEN <<SrtBlock(index, Head(utterances))>>
                  \o SrtLoop(Tail(utterances), index + 1)
         ELSE SrtLoop(Tail(utterances), index)

\* the blocks generateSRT appends, in order; srtContent is their concatenation
generateSRTBlocks(utterances) == SrtLoop(utterances, 1)

generateSRT(utterances) == Flatten(generateSRTBlocks(utterances))

(***************************************************************************)
(* Cue allocator: POST /api/align-subtitle                                 *)
(*                                                                         *)
(* ffprobe prints the duration in seconds with six decimals, so the probed *)
(* duration is a whole number of microseconds, durationUs, and durationMs, *)
(* which is parseFloat(...) * 1000, is the fraction durationUs / UsPerMs.  *)
(* The quotients are taken exactly here; the doubles of the code round     *)
(* avgDuration and its products in addition.                               *)
(***************************************************************************)

UsPerMs == 1000

\* String.prototype.split(ch)
RECURSIVE Split(_, _)
Split(s, ch) ==
    IF \A i \in 1..Len(s) : s[i] # ch THEN <<s>>
    ELSE LET i == CHOOSE k \in 1..Len(s) :
                     s[k] = ch /\ \A j \in 1..(k - 1) : s[j] # ch
         IN  <<SubSeq(s, 1, i - 1)>> \o Split(SubSeq(s, i + 1, Len(s)), ch)

SplitLines(s) == Split(s, "\n")

NonBlankLine(line) == Trim(line) # <<>>

\* Math.floor(index * avgDuration), avgDuration = durationMs / n
CueBoundary(index, durationUs, n) == (index * durationUs) \div (UsPerMs * n)

\* lines.map((text, index) => ({start_time, end_time, text}))
UniformCues(lines, durationUs) ==
    [i \in 1..Len(lines) |->
        [start_time |-> CueBoundary(i - 1, durationUs, Len(lines)),
         end_time |-> CueBoundary(i, durationUs, Len(lines)),
         text |-> Trim(lines[i])]]

AlignFailure(status) ==
    [status |-> status, utterances |-> <<>>, durationUs |-> 0, lineCount |-> 0,
     srt |-> <<>>]

\* ffprobe exits non-zero and execSync throws
ProbeFails == -1

\* the handler: audioExists is fs.existsSync(fullPath), probe is what ffprobe
\* does: it fails, or prints a duration (in microseconds).  A response of
\* status 0 stands for no response yet.
AlignSubtitle(audioExists, subtitleText, probe) ==
    /\ alignRes' =
          IF subtitleText = Absent THEN AlignFailure(500)
          ELSE IF ~audioExists THEN AlignFailure(400)
          ELSE LET lines == SelectSeq(SplitLines(subtitleText), NonBlankLine)
               IN  IF Len(lines) = 0 THEN AlignFailure(400)
                   ELSE IF probe = ProbeFails THEN AlignFailure(500)
                   ELSE LET utterances == UniformCues(lines, probe)
                        IN  [status |-> 200,
                             utterances |-> utterances,
                             durationUs |-> probe,
                             lineCount |-> Len(lines),
                             srt |-> generateSRT(utterances)]
    /\ UNCHANGED <<fn, arg, ret, now, authLog, videoLog, videoFiles, coverVars>>

(***************************************************************************)
(* Style translator: cssToAssColor                                         *)
(***************************************************************************)

LowerCase ==
    <<"a", "b", "c", "d", "e", "f", "g", "h", "i", "j", "k", "l", "m",
      "n", "o", "p", "q", "r", "s", "t", "u", "v", "w", "x", "y", "z">>

UpperCase ==
    <<"A", "B", "C", "D", "E", "F", "G", "H", "I", "J", "K", "L", "M",
      "N", "O", "P", "Q", "R", "S", "T", "U", "V", "W", "X", "Y", "Z">>

\* String.prototype.toUpperCase()
ToUpperCase(s) ==
    [i \in 1..Len(s) |->
        IF \E k \in 1..Len(LowerCase) : LowerCase[k] = s[i]
        THEN UpperCase[CHOOSE k \in 1..Len(LowerCase) : LowerCase[k] = s[i]]
        ELSE s[i]]

\* String.prototype.replace(ch, ""): the first occurrence only
RemoveFirst(s, ch) ==
    IF \A i \in 1..Len(s) : s[i] # ch THEN s
    ELSE LET i == CHOOSE k \in 1..Len(s) :
                     s[k] = ch /\ \A j \in 1..(k - 1) : s[j] # ch
         IN  SubSeq(s, 1, i - 1) \o SubSeq(s, i + 1, Len(s))

\* a plausible slip: the byte pairs kept in the order of the CSS colour
cssToAssColorNoSwap(cssColor) ==
    IF StartsWith(cssColor, <<"&", "H">>) THEN cssColor
    ELSE LET hex == RemoveFirst(cssColor, "#")
             r == Substring(hex, 0, 2)
             g == Substring(hex, 2, 4)
             b == Substring(hex, 4, 6)
         IN  ToUpperCase(<<"&", "H", "0", "0">> \o r \o g \o b)

cssToAssColor(cssColor) ==
    IF StartsWith(cssColor, <<"&", "H">>) THEN cssColor
    ELSE LET hex == RemoveFirst(cssColor, "#")
             r == Substring(hex, 0, 2)
             g == Substring(hex, 2, 4)
             b == Substring(hex, 4, 6)
         IN  ToUpperCase(<<"&", "H", "0", "0">> \o b \o g \o r)

(***************************************************************************)
(* Paths (node's path module, POSIX)                                       *)
(***************************************************************************)

\* __dirname
DirName == <<"/", "srv">>

\* Array.prototype.join(ch)
RECURSIVE JoinWith(_, _)
JoinWith(ss, ch) ==
    IF ss = <<>> THEN <<>>
    ELSE IF Len(ss) = 1 THEN Head(ss)
    ELSE Head(ss) \o <<ch>> \o JoinWith(Tail(ss), ch)

\* normalisation of the segments of an absolute path: "" and "." are dropped,
\* ".." drops the segment before it
RECURSIVE ResolveSegments(_, _)
ResolveSegments(stack, segs) ==
    IF segs = <<>> THEN stack
    ELSE LET h == Head(segs)
         IN  IF h = <<>> \/ h = <<".">> THEN ResolveSegments(stack, Tail(segs))
             ELSE IF h = <<".", ".">>
                  THEN ResolveSegments(
                           IF stack = <<>> THEN <<>>
                           ELSE SubSeq(stack, 1, Len(stack) - 1), Tail(segs))
                  ELSE ResolveSegments(Append(stack, h), Tail(segs))

NonEmptyString(x) == x # <<>>

\* path.join(...parts), the first part being absolute
PathJoin(parts) ==
    LET joined == JoinWith(SelectSeq(parts, NonEmptyString), "/")
        segs == ResolveSegments(<<>>, Split(joined, "/"))
    IN  IF segs = <<>> THEN <<"/">>
        ELSE <<"/">> \o JoinWith(segs, "/")
                \o (IF joined[Len(joined)] = "/" THEN <<"/">> ELSE <<>>)

RECURSIVE StripTrailingSlashes(_)
StripTrailingSlashes(p) ==
    IF p # <<>> /\ p[Len(p)] = "/" THEN StripTrailingSlashes(SubSeq(p, 1, Len(p) - 1))
    ELSE p

\* path.basename(p)
Basename(p) ==
    LET segs == Split(StripTrailingSlashes(p), "/")
    IN  segs[Len(segs)]

\* path.extname(p): from the last dot of the base name on, unless that dot
\* starts the base name or the base name is ".."
ExtName(p) ==
    LET base == Basename(p)
        dots == {k \in 1..Len(base) : base[k] = "."}
    IN  IF dots = {} \/ base = <<".", ".">> THEN <<>>
        ELSE LET k == CHOOSE d \in dots : \A e \in dots : e <= d
             IN  IF k = 1 THEN <<>> ELSE SubSeq(base, k, Len(base))

\* path.basename(p, path.extname(p))
BasenameNoExt(p) ==
    LET base == Basename(p)
    IN  SubSeq(base, 1, Len(base) - Len(ExtName(p)))

(***************************************************************************)
(* Composition planner: POST /api/generate-video                           *)
(***************************************************************************)

Portrait == <<"9", ":", "1", "6">>

\* a value || fallback: undefined and the empty string are falsy
Truthy(x) == x # Absent /\ x # <<>>

OrElse(x, fallback) == IF Truthy(x) THEN x ELSE fallback

\* const { aspectRatio = '9:16' } = req.body
AspectOf(req) == IF req.aspectRatio = Absent THEN Portrait ELSE req.aspectRatio

VideoSize(aspectRatio) ==
    IF aspectRatio = Portrait THEN <<"1080:1920">> ELSE <<"1920:1080">>

\* a plausible slip: the margin decided by a test for the other ratio
MarginVByLandscape(aspectRatio) ==
    IF aspectRatio = <<"1", "6", ":", "9">> THEN 40 ELSE 60

MarginV(aspectRatio) == IF aspectRatio = Portrait THEN 60 ELSE 40

\* a plausible slip: the clock appended to the base name of every output
BaseNameStamped(originalFilename, clock) ==
    IF Truthy(originalFilename)
    THEN BasenameNoExt(originalFilename) \o <<"-">> \o NumToString(clock)
    ELSE <<"video-">> \o NumToString(clock)

BaseName(originalFilename, clock) ==
    IF Truthy(originalFilename) THEN BasenameNoExt(originalFilename)
    ELSE <<"video-">> \o NumToString(clock)

\* the fixed prefix of the output name ends with five CJK characters, written
\* here as one element
OutputName(originalFilename, clock) ==
    <<"pimsleur <daily-english-dialogue>-">> \o BaseName(originalFilename, clock)
        \o <<".mp4">>

OutputPath(originalFilename, clock) ==
    PathJoin(<<DirName, <<"outputs">>, <<"videos">>, OutputName(originalFilename, clock)>>)

Lit(text) == [kind |-> "lit", text |-> text]

\* a value placed between double quotes of the shell command
InDoubleQuotes(text) == <<Lit(<<"\"">>), [kind |-> "dq", text |-> text], Lit(<<"\"">>)>>

\* a value placed between single quotes of the filter graph
InSingleQuotes(parts) == <<Lit(<<"'">>)>> \o parts \o <<Lit(<<"'">>)>>

FilterValue(text) == [kind |-> "sq", text |-> text]

\* styleStr, in its parts
StyleParts(style, aspectRatio) ==
    <<Lit(<<"FontName=PingFang SC,FontSize=">>),
      FilterValue(OrElse(style.fontSize, <<"2", "4">>)),
      Lit(<<",PrimaryColour=">>),
      FilterValue(cssToAssColor(OrElse(style.fontColor,
                                       <<"#", "F", "F", "F", "F", "F", "F">>))),
      Lit(<<",OutlineColour=">>),
      FilterValue(cssToAssColor(OrElse(style.outlineColor,
                                       <<"#", "0", "0", "0", "0", "0", "0">>))),
      Lit(<<",Outline=">>),
      FilterValue(OrElse(style.outlineWidth, <<"2">>)),
      Lit(<<",Shadow=0,Alignment=2,MarginV=">>),
      [kind |-> "margin", text |-> NumToString(MarginV(aspectRatio))]>>

SizePart(aspectRatio) == [kind |-> "size", text |-> VideoSize(aspectRatio)]

\* the command, in its parts: the fixed fragments and the values placed in them
CommandParts(req, clock) ==
    LET aspectRatio == AspectOf(req)
        scalePad ==
            <<Lit(<<" -vf ">>), Lit(<<"\"">>), Lit(<<"scale=">>), SizePart(aspectRatio),
              Lit(<<":force_original_aspect_ratio=decrease,pad=">>),
              SizePart(aspectRatio), Lit(<<":(ow-iw)/2:(oh-ih)/2">>)>>
        subtitles ==
            IF req.withSubtitles /\ Truthy(req.srtPath)
            THEN <<Lit(<<",subtitles=">>)>>
                    \o InSingleQuotes(<<FilterValue(PathJoin(<<DirName, req.srtPath>>))>>)
                    \o <<Lit(<<":force_style=">>)>>
                    \o InSingleQuotes(StyleParts(req.subtitleStyle, aspectRatio))
            ELSE <<>>
    IN  <<Lit(<<"ffmpeg -loop 1 -i ">>)>>
            \o InDoubleQuotes(PathJoin(<<DirName, req.imagePath>>))
            \o <<Lit(<<" -i ">>)>>
            \o InDoubleQuotes(PathJoin(<<DirName, req.audioPath>>))
            \o scalePad \o subtitles
            \o <<Lit(<<"\"">>),
                 Lit(<<" -c:v libx264 -tune stillimage -c:a aac -b:a 192k -pix_fmt yuv420p -shortest -y ">>)>>
            \o InDoubleQuotes(OutputPath(req.originalFilename, clock))

\* the command text
CommandText(parts) == Flatten([i \in 1..Len(parts) |-> parts[i].text])

\* what execSync(command) does: ffmpeg exits non-zero (execSync throws), or
\* exits zero having written the output, or exits zero having written nothing
ExecOutcomes == {"exit-nonzero", "exit-zero-written", "exit-zero-nothing"}

\* the handler: with audioPath or imagePath undefined path.join throws before
\* anything is built, and the answer is a failure
GenerateVideo(req, outcome) ==
    LET throwsEarly == req.audioPath = Absent \/ req.imagePath = Absent
        parts == IF throwsEarly THEN <<>> ELSE CommandParts(req, now)
        outputPath == IF throwsEarly THEN <<>> ELSE OutputPath(req.originalFilename, now)
        executed == ~throwsEarly
        files == IF executed /\ outcome = "exit-zero-written"
                 THEN videoFiles \cup {outputPath} ELSE videoFiles
        rec == [req |-> req,
                at |-> now,
                parts |-> parts,
                outputPath |-> outputPath,
                executed |-> executed,
                exitZero |-> executed /\ outcome # "exit-nonzero",
                artifact |-> outputPath \in files,
                status |-> IF executed /\ outcome # "exit-nonzero" THEN 200 ELSE 500]
    IN  /\ videoFiles' = files
        /\ videoLog' = IF Len(videoLog) < 2 THEN Append(videoLog, rec)
                       ELSE <<videoLog[1], rec>>
        /\ UNCHANGED <<fn, ret, alignRes, now, authLog, coverVars>>

(***************************************************************************)
(* Cover images: POST /api/generate-cover and POST /api/upload-cover       *)
(*                                                                         *)
(* Neither handler awaits anything and execSync blocks the event loop, so  *)
(* each handler runs from its Date.now() to its response with no other     *)
(* handler in between: each is one step.                                   *)
(***************************************************************************)

\* String.prototype.replace(/"/g, '\\"')
RECURSIVE EscapeDoubleQuotes(_)
EscapeDoubleQuotes(s) ==
    IF s = <<>> THEN <<>>
    ELSE (IF Head(s) = "\"" THEN <<"\\", "\"">> ELSE <<Head(s)>>)
            \o EscapeDoubleQuotes(Tail(s))

OrientationDesc(aspectRatio) ==
    IF aspectRatio = Portrait
    THEN <<"vertical 9:16 portrait orientation (1080x1920 pixels)">>
    ELSE <<"horizontal 16:9 landscape orientation (1920x1080 pixels)">>

\* customPrompt || the template around the orientation and the title
CoverPrompt(req) ==
    OrElse(req.customPrompt,
           <<"Cute kawaii cartoon illustration, ">> \o OrientationDesc(AspectOf(req))
              \o <<". A cheerful scene depicting: ">>
              \o (IF req.title = Absent THEN <<"undefined">> ELSE req.title)
              \o <<". Adorable chibi-style characters ... No text in the image.">>)

CoverOutputName(clock) == <<"cover-">> \o NumToString(clock)

CoverCommandParts(req, clock) ==
    <<Lit(<<"python3 ~/.config/pie/skills/nano_banana/scripts/image_gen.py generate --prompt ">>)>>
        \o InDoubleQuotes(EscapeDoubleQuotes(CoverPrompt(req)))
        \o <<Lit(<<" --output ">>)>>
        \o InDoubleQuotes(PathJoin(<<DirName, <<"outputs">>, <<"images">>,
                                      CoverOutputName(clock)>>))

\* the file of that name, replaced or created
WriteCover(files, name, writer) ==
    {f \in files : f.name # name} \cup {[name |-> name, writer |-> writer]}

\* the handler of /api/generate-cover.  tool is what the image generator does:
\* it exits non-zero (execSync throws), or exits zero having written
\* <output><ext> (it chooses the extension) or nothing.  readdirSync lists the
\* directory in the file system's order, so find() returns any of the files
\* whose name starts with outputName.
GenerateCover(req, tool) ==
    LET id == requests + 1
        outputName == CoverOutputName(now)
        written == IF tool.exit = 0 /\ tool.writes THEN outputName \o tool.ext ELSE <<>>
        files == IF written # <<>> THEN WriteCover(coverFiles, written, id) ELSE coverFiles
        found == {f \in files : StartsWith(f.name, outputName)}
        failure == [id |-> id, at |-> now, status |-> 500, exitZero |-> tool.exit = 0,
                    written |-> written, imagePath |-> <<>>, servedWriter |-> 0,
                    parts |-> CoverCommandParts(req, now)]
    IN  /\ coverFiles' = files
        /\ requests' = id
        /\ IF tool.exit # 0 \/ found = {}
           THEN coverLog' = Append(coverLog, failure)
           ELSE \E generatedFile \in found :
                  coverLog' = Append(coverLog,
                      [failure EXCEPT !.status = 200,
                                      !.imagePath = generatedFile.name,
                                      !.servedWriter = generatedFile.writer])
        /\ UNCHANGED <<fn, arg, ret, alignRes, now, authLog, videoLog, videoFiles>>

\* the handler of /api/upload-cover: the uploaded file is renamed to
\* cover-<Date.now()>.jpg, over any file of that name
UploadCover(hasFile) ==
    /\ requests' = requests + 1
    /\ coverFiles' =
          IF hasFile
          THEN WriteCover(coverFiles, CoverOutputName(now) \o <<".jpg">>, requests + 1)
          ELSE coverFiles
    /\ UNCHANGED <<fn, arg, ret, alignRes, now, authLog, videoLog, videoFiles, coverLog>>

(***************************************************************************)
(* Request signer: generateAuthHeaders                                     *)
(***************************************************************************)

HexDigits ==
    <<"0", "1", "2", "3", "4", "5", "6", "7", "8", "9", "a", "b", "c", "d", "e", "f">>

\* Buffer.prototype.toString('hex')
RECURSIVE ToHex(_)
ToHex(bytes) ==
    IF bytes = <<>> THEN <<>>
    ELSE <<HexDigits[(Head(bytes) \div 16) + 1], HexDigits[(Head(bytes) % 16) + 1]>>
            \o ToHex(Tail(bytes))

\* createHmac('sha256', key).update(msg).digest('hex'), as a term: two MACs
\* are equal exactly when key and message are
Hmac(key, msg) == [alg |-> "sha256", key |-> key, msg |-> msg]

\* a plausible slip: the nonce sent in the header but left out of the signed string
generateAuthHeadersUnsignedNonce(method, apiPath, appId, appSecret, clock, random) ==
    LET timestamp == clock \div 1000
        nonce == ToHex(random)
        signatureString ==
            method \o <<"\n">> \o apiPath \o <<"\n">> \o NumToString(timestamp)
                \o <<"\n">> \o appId
        signature == Hmac(appSecret, signatureString)
    IN  [XAppId |-> appId,
         XTimestamp |-> NumToString(timestamp),
         XNonce |-> nonce,
         Authorization |-> [scheme |-> "HMAC-SHA256", signature |-> signature]]

\* clock is Date.now() and random is randomBytes(16) at the call
generateAuthHeaders(method, apiPath, appId, appSecret, clock, random) ==
    LET timestamp == clock \div 1000
        nonce == ToHex(random)
        signatureString ==
            method \o <<"\n">> \o apiPath \o <<"\n">> \o NumToString(timestamp)
                \o <<"\n">> \o nonce \o <<"\n">> \o appId
        signature == Hmac(appSecret, signatureString)
    IN  [XAppId |-> appId,
         XTimestamp |-> NumToString(timestamp),
         XNonce |-> nonce,
         Authorization |-> [scheme |-> "HMAC-SHA256", signature |-> signature]]

(***************************************************************************)
(* Harness of the pure functions: Init draws the argument, the action      *)
(* applies the function.                                                   *)
(***************************************************************************)

MaxDelta == 5

\* the values at which a field of the timestamp rolls over
TimeBoundaries ==
    {0, MsPerSecond, MsPerMinute, MsPerHour, 3661001,
     10 * MsPerHour, 100 * MsPerHour, 2147483000}

TimeInputs == {b + d : b \in TimeBoundaries, d \in (-MaxDelta)..MaxDelta}

MaxUtterances == 3

Texts ==
    {<<>>, <<" ">>, <<" ", " ">>, <<"a">>, <<"b">>, <<" ", "a">>,
     <<"b", "\n">>, <<"a", " ", "b">>, <<" ", "a", "\n", "b", " ">>}

UtteranceTimes == {<<0, 2000>>, <<-5, 3661001>>}

Utterances ==
    {[start_time |-> t[1], end_time |-> t[2], text |-> x] :
        t \in UtteranceTimes, x \in Texts}

SeqsUpTo(S, n) == UNION {[1..k -> S] : k \in 0..n}

ClockStart == 1000

\* what a behaviour that does not use them holds in the server's variables
AlignIdle ==
    /\ alignRes = AlignFailure(0)
    /\ now = ClockStart
    /\ authLog = <<>>
    /\ videoLog = <<>>
    /\ videoFiles = {}
    /\ coverFiles = {}
    /\ coverLog = <<>>
    /\ requests = 0

InitTime ==
    /\ fn = "msToSrtTime"
    /\ arg \in TimeInputs
    /\ ret = <<>>
    /\ AlignIdle

CallMsToSrtTime ==
    /\ fn = "msToSrtTime"
    /\ ret = <<>>
    /\ ret' = <<msToSrtTime(arg)>>
    /\ UNCHANGED <<fn, arg, alignRes, now, authLog, videoLog, videoFiles, coverVars>>

NextTime == CallMsToSrtTime

SpecTime == InitTime /\ [][NextTime]_vars

InitSRT ==
    /\ fn = "generateSRT"
    /\ arg \in SeqsUpTo(Utterances, MaxUtterances)
    /\ ret = <<>>
    /\ AlignIdle

CallGenerateSRT ==
    /\ fn = "generateSRT"
    /\ ret = <<>>
    /\ ret' = <<generateSRTBlocks(arg)>>
    /\ UNCHANGED <<fn, arg, alignRes, now, authLog, videoLog, videoFiles, coverVars>>

NextSRT == CallGenerateSRT

SpecSRT == InitSRT /\ [][NextSRT]_vars

\* the decimal number a string of digits writes, -1 when it is not one
RECURSIVE ParseNum(_)
ParseNum(s) ==
    IF s = <<>> THEN -1
    ELSE LET d == {k \in 0..9 : Digits[k + 1] = s[Len(s)]}
         IN  IF d = {} THEN -1
             ELSE IF Len(s) = 1 THEN CHOOSE k \in d : TRUE
             ELSE LET hi == ParseNum(SubSeq(s, 1, Len(s) - 1))
                  IN  IF hi < 0 THEN -1 ELSE 10 * hi + (CHOOSE k \in d : TRUE)

\* the fields of a rendered HH:MM:SS,mmm, read back from the text
SrtFields(t) ==
    LET n == Len(t)
    IN  [wellFormed |-> n >= 12 /\ t[n - 9] = ":" /\ t[n - 6] = ":" /\ t[n - 3] = ",",
         hours |-> ParseNum(SubSeq(t, 1, n - 10)),
         minutes |-> ParseNum(SubSeq(t, n - 8, n - 7)),
         seconds |-> ParseNum(SubSeq(t, n - 5, n - 4)),
         milliseconds |-> ParseNum(SubSeq(t, n - 2, n))]

\* C3: for every integer ms >= 0 the text msToSrtTime returns reads back as
\* hours >= 0 (two digits or more), minutes and seconds in 0..59 (two digits),
\* milliseconds in 0..999 (three digits), hours being floor(ms / 3600000) and
\* the four fields adding up to ms; for ms < 0 it is 00:00:00,000.
TimeCodecCorrect ==
    (fn = "msToSrtTime" /\ ret # <<>>) =>
        LET f == SrtFields(ret[1])
        IN  IF arg < 0
            THEN ret[1] = <<"0", "0", ":", "0", "0", ":", "0", "0", ",", "0", "0", "0">>
            ELSE /\ f.wellFormed
                 /\ f.hours = arg \div 3600000
                 /\ f.minutes \in 0..59
                 /\ f.seconds \in 0..59
                 /\ f.milliseconds \in 0..999
                 /\ f.hours * 3600000 + f.minutes * 60000
                        + f.seconds * 1000 + f.milliseconds = arg

\* 3661001 ms has been rendered as 01:01:01,001
TimeCodecWitness ==
    /\ fn = "msToSrtTime"
    /\ arg = 3661001
    /\ ret = << <<"0", "1", ":", "0", "1", ":", "0", "1", ",", "0", "0", "1">> >>

NonEmptyText(u) == Trim(u.text) # <<>>

EndsWith(s, p) == Len(p) <= Len(s) /\ SubSeq(s, Len(s) - Len(p) + 1, Len(s)) = p

\* C2: generateSRT emits exactly one block per utterance whose trimmed text is
\* not empty, in the utterances' order, and the k-th block carries the number k
\* and the k-th such utterance's times and trimmed text.
SrtNumberingContiguous ==
    (fn = "generateSRT" /\ ret # <<>>) =>
        LET blocks == ret[1]
            kept == SelectSeq(arg, NonEmptyText)
        IN  /\ Len(blocks) = Len(kept)
            /\ \A k \in 1..Len(blocks) :
                  /\ StartsWith(blocks[k], NumToString(k) \o <<"\n">>
                                    \o msToSrtTime(kept[k].start_time) \o <<" --> ">>)
                  /\ EndsWith(blocks[k], msToSrtTime(kept[k].end_time) \o <<"\n">>
                                    \o Trim(kept[k].text) \o <<"\n", "\n">>)
                  /\ Len(blocks[k]) = Len(NumToString(k)) + Len(Trim(kept[k].text))
                        + Len(msToSrtTime(kept[k].start_time))
                        + Len(msToSrtTime(kept[k].end_time)) + 5

\* a blank utterance between two others has been dropped and two blocks written
SrtNumberingWitness ==
    /\ fn = "generateSRT"
    /\ Len(arg) = 3
    /\ Trim(arg[1].text) = <<"a">>
    /\ arg[2].text = <<" ", " ">>
    /\ Trim(arg[3].text) = <<"b">>
    /\ ret # <<>>
    /\ Len(ret[1]) = 2
    /\ Head(ret[1][2]) = "2"

(***************************************************************************)
(* /api/align-subtitle under every request                                 *)
(***************************************************************************)

MaxDurationUs == 3000

SubtitleTexts ==
    {<<>>, <<" ", "\n">>, <<"a">>, <<"a", "\n", "b">>, <<" ", "a", "\n", "\n", "b", " ">>,
     <<"a", "\n", "b", "\n", "c">>, <<"a", "\n", " ", "\n", "b", "\n", "c", "\n", "d">>}

AlignRequests ==
    [audioExists : BOOLEAN, subtitleText : SubtitleTexts \cup {Absent},
     probe : (0..MaxDurationUs) \cup {ProbeFails}]

\* one request per behaviour, drawn at the start
InitAlign ==
    /\ fn = "align-subtitle"
    /\ arg \in AlignRequests
    /\ ret = <<>>
    /\ AlignIdle

NextAlign ==
    /\ fn = "align-subtitle"
    /\ alignRes.status = 0
    /\ AlignSubtitle(arg.audioExists, arg.subtitleText, arg.probe)

SpecAlign == InitAlign /\ [][NextAlign]_vars

\* C1: in a successful uniform allocation of duration D over n >= 1 lines the
\* cues tile [0, D): the first starts at 0, each ends where the next starts,
\* none ends before it starts, and the last ends at D.
UniformCuesTile ==
    alignRes.status = 200 =>
        LET u == alignRes.utterances
            n == Len(u)
        IN  /\ n >= 1
            /\ u[1].start_time = 0
            /\ \A i \in 1..(n - 1) : u[i].end_time = u[i + 1].start_time
            /\ \A i \in 1..n : u[i].start_time <= u[i].end_time
            /\ u[n].end_time * UsPerMs = alignRes.durationUs

(***************************************************************************)
(* cssToAssColor, applied once and then to its own result                  *)
(***************************************************************************)

HexPairs ==
    {<<"0", "0">>, <<"f", "f">>, <<"F", "F">>, <<"c", "C">>, <<"C", "C">>,
     <<"0", "a">>, <<"9", "e">>}

HashColors == {<<"#">> \o r \o g \o b : r \in HexPairs, g \in HexPairs, b \in HexPairs}

UpperPairs == {<<"0", "0">>, <<"F", "F">>, <<"C", "C">>, <<"9", "E">>}

NativeColors ==
    {<<"&", "H", "0", "0">> \o b \o g \o r :
        b \in UpperPairs, g \in UpperPairs, r \in UpperPairs}

\* neither shape: three digits, a colour name, no #, the empty string
OtherColors ==
    {<<"#", "F", "F", "F">>, <<"r", "e", "d">>, <<"f", "f", "0", "0", "c", "c">>,
     <<>>, <<"&", "H", "f", "f">>}

IsHexDigit(c) ==
    \/ \E k \in 1..10 : Digits[k] = c
    \/ \E k \in 1..6 : LowerCase[k] = c \/ UpperCase[k] = c

IsHashColor(c) == Len(c) = 7 /\ c[1] = "#" /\ \A i \in 2..7 : IsHexDigit(c[i])

IsNativeColor(c) ==
    Len(c) = 10 /\ SubSeq(c, 1, 2) = <<"&", "H">> /\ \A i \in 3..10 : IsHexDigit(c[i])

InitColor ==
    /\ fn = "cssToAssColor"
    /\ arg \in HashColors \cup NativeColors \cup OtherColors
    /\ ret = <<>>
    /\ AlignIdle

\* cssToAssColor(arg), then cssToAssColor of what that returned
CallCssToAssColor ==
    /\ fn = "cssToAssColor"
    /\ Len(ret) < 2
    /\ ret' = Append(ret, cssToAssColor(IF ret = <<>> THEN arg ELSE ret[Len(ret)]))
    /\ UNCHANGED <<fn, arg, alignRes, now, authLog, videoLog, videoFiles, coverVars>>

NextColor == CallCssToAssColor

SpecColor == InitColor /\ [][NextColor]_vars

\* C7: a #RRGGBB input becomes &H00 followed by the BB, GG and RR pairs in
\* upper case, an input already of the shape &H and eight hex digits is
\* returned as it is, and translating the translation of a #RRGGBB input
\* changes nothing.
ColorTranslation ==
    (fn = "cssToAssColor" /\ ret # <<>>) =>
        /\ IsHashColor(arg) =>
              /\ SubSeq(ret[1], 1, 4) = <<"&", "H", "0", "0">>
              /\ SubSeq(ret[1], 5, 6) = ToUpperCase(SubSeq(arg, 6, 7))
              /\ SubSeq(ret[1], 7, 8) = ToUpperCase(SubSeq(arg, 4, 5))
              /\ SubSeq(ret[1], 9, 10) = ToUpperCase(SubSeq(arg, 2, 3))
              /\ Len(ret[1]) = 10
        /\ IsNativeColor(arg) => ret[1] = arg
        /\ (IsHashColor(arg) /\ Len(ret) = 2) => ret[2] = ret[1]

\* #ff00cC has been translated to &H00CC00FF, and that to itself
ColorWitness ==
    /\ fn = "cssToAssColor"
    /\ arg = <<"#", "f", "f", "0", "0", "c", "C">>
    /\ ret = << <<"&", "H", "0", "0", "C", "C", "0", "0", "F", "F">>,
                <<"&", "H", "0", "0", "C", "C", "0", "0", "F", "F">> >>

(***************************************************************************)
(* A sequence of generateAuthHeaders calls while the clock runs            *)
(***************************************************************************)

MaxCalls == 2
MaxAuthElapsed == 1000

\* the width of the nonce in bytes (16 in the code) and the values a byte takes
NonceBytes == 1
RandomByteValues == {0, 171}

Methods == {<<"POST">>, <<"GET">>}
ApiPaths == {<<"/asr/volcengine_quick">>}
AppIds == {<<"app-1">>}
AppSecrets == {<<"secret-1">>}

\* the clock advances by d milliseconds
Tick(d, maxElapsed) ==
    /\ now + d <= ClockStart + maxElapsed
    /\ now' = now + d

InitAuth ==
    /\ fn = "generateAuthHeaders"
    /\ arg = Absent
    /\ ret = <<>>
    /\ AlignIdle

CallGenerateAuthHeaders ==
    /\ Len(authLog) < MaxCalls
    /\ \E method \in Methods, apiPath \in ApiPaths, appId \in AppIds,
          appSecret \in AppSecrets, random \in [1..NonceBytes -> RandomByteValues] :
          authLog' = Append(authLog,
              [method |-> method, apiPath |-> apiPath, appId |-> appId,
               appSecret |-> appSecret, at |-> now,
               headers |-> generateAuthHeaders(method, apiPath, appId, appSecret,
                                               now, random)])
    /\ UNCHANGED <<fn, arg, ret, alignRes, now, videoLog, videoFiles, coverVars>>

TickAuth ==
    /\ Tick(500, MaxAuthElapsed)
    /\ UNCHANGED <<fn, arg, ret, alignRes, authLog, videoLog, videoFiles, coverVars>>

NextAuth == CallGenerateAuthHeaders \/ TickAuth

SpecAuth == InitAuth /\ [][NextAuth]_vars

SameArguments(a, b) ==
    /\ a.method = b.method
    /\ a.apiPath = b.apiPath
    /\ a.appId = b.appId
    /\ a.appSecret = b.appSecret

\* the signature is the MAC under appSecret of method, path, the returned
\* timestamp, the returned nonce and appId, joined by newlines
SignatureVerifies(c) ==
    c.headers.Authorization.signature =
        Hmac(c.appSecret,
             c.method \o <<"\n">> \o c.apiPath \o <<"\n">> \o c.headers.XTimestamp
                \o <<"\n">> \o c.headers.XNonce \o <<"\n">> \o c.headers.XAppId)

\* C5 as claimed: no call returns a timestamp, a nonce or a signature that an
\* earlier call returned, and every signature is the MAC of the five fields.
AuthHeadersNeverRepeat ==
    /\ \A i \in 1..Len(authLog) : SignatureVerifies(authLog[i])
    /\ \A i \in 1..Len(authLog) : \A j \in (i + 1)..Len(authLog) :
          /\ authLog[i].headers.XTimestamp # authLog[j].headers.XTimestamp
          /\ authLog[i].headers.XNonce # authLog[j].headers.XNonce
          /\ authLog[i].headers.Authorization.signature
                # authLog[j].headers.Authorization.signature

\* C5 as amended: every call returns the clock's second at the call (so the
\* timestamp never decreases, and repeats within a second) and a nonce of the
\* drawn bytes in hex; every signature is the MAC under appSecret of method,
\* path, the returned timestamp, the returned nonce and appId joined by
\* newlines; and two calls with the same arguments return the same signature
\* only if they returned the same timestamp and the same nonce.
AuthSignatureBindsTimestampAndNonce ==
    /\ \A i \in 1..Len(authLog) :
          /\ SignatureVerifies(authLog[i])
          /\ ParseNum(authLog[i].headers.XTimestamp) * 1000 <= authLog[i].at
          /\ authLog[i].at < (ParseNum(authLog[i].headers.XTimestamp) + 1) * 1000
          /\ Len(authLog[i].headers.XNonce) = 2 * NonceBytes
          /\ authLog[i].headers.XAppId = authLog[i].appId
    /\ \A i \in 1..Len(authLog) : \A j \in (i + 1)..Len(authLog) :
          /\ ParseNum(authLog[i].headers.XTimestamp)
                <= ParseNum(authLog[j].headers.XTimestamp)
          /\ (/\ SameArguments(authLog[i], authLog[j])
              /\ authLog[i].headers.Authorization.signature
                    = authLog[j].headers.Authorization.signature)
                => /\ authLog[i].headers.XTimestamp = authLog[j].headers.XTimestamp
                   /\ authLog[i].headers.XNonce = authLog[j].headers.XNonce

\* two calls with the same arguments within one clock second: the same
\* timestamp, different nonces, different signatures
AuthWitness ==
    /\ Len(authLog) >= 2
    /\ SameArguments(authLog[1], authLog[2])
    /\ authLog[1].at # authLog[2].at
    /\ authLog[1].headers.XTimestamp = authLog[2].headers.XTimestamp
    /\ authLog[1].headers.XNonce # authLog[2].headers.XNonce
    /\ authLog[1].headers.Authorization.signature
          # authLog[2].headers.Authorization.signature

(***************************************************************************)
(* /api/generate-video: one request body, sent any number of times         *)
(***************************************************************************)

MaxVideoElapsed == 1

AudioPaths == {Absent, <<"/", "a", ".", "m">>, <<"/", "a", "\"", ".", "m">>}
ImagePaths == {<<"/", "u", "/", ".", ".", "/", "i">>}
SrtPaths == {Absent, <<"/", "s">>, <<"/", "s", "'">>}
OriginalFilenames ==
    {Absent, <<>>, <<"x", ".", "m">>, <<"d", "/", "x", "\"", ".", "m">>}
AspectRatios == {Absent, Portrait, <<"1", "6", ":", "9">>, <<"4", ":", "3">>}

NoStyle ==
    [fontSize |-> Absent, fontColor |-> Absent, outlineColor |-> Absent,
     outlineWidth |-> Absent]

SubtitleStyles ==
    {NoStyle,
     [fontSize |-> <<"3", "0">>, fontColor |-> <<"#", "f", "f", "0", "0", "c", "c">>,
      outlineColor |-> <<"&", "H", "0", "0", "0", "0", "0", "0", "0", "0">>,
      outlineWidth |-> <<"3">>],
     [fontSize |-> <<>>, fontColor |-> <<"&", "H", "'">>,
      outlineColor |-> Absent, outlineWidth |-> <<"1", "\"">>]}

VideoRequests ==
    [audioPath : AudioPaths, imagePath : ImagePaths, srtPath : SrtPaths,
     withSubtitles : BOOLEAN, originalFilename : OriginalFilenames,
     aspectRatio : AspectRatios, subtitleStyle : SubtitleStyles]

InitVideo ==
    /\ fn = "generate-video"
    /\ arg \in VideoRequests
    /\ ret = <<>>
    /\ AlignIdle

HandleVideo ==
    /\ fn = "generate-video"
    /\ \E outcome \in ExecOutcomes : GenerateVideo(arg, outcome)
    /\ UNCHANGED arg

TickVideo ==
    /\ Tick(1, MaxVideoElapsed)
    /\ UNCHANGED <<fn, arg, ret, alignRes, authLog, videoLog, videoFiles, coverVars>>

NextVideo == HandleVideo \/ TickVideo

SpecVideo == InitVideo /\ [][NextVideo]_vars

Backslash == "\\"

\* the character at i of s stands behind an odd number of backslashes
RECURSIVE EscapedAt(_, _)
EscapedAt(s, i) == i > 1 /\ s[i - 1] = Backslash /\ ~EscapedAt(s, i - 1)

\* every occurrence of the quote q in s is escaped
QuotesEscaped(s, q) == \A i \in 1..Len(s) : s[i] = q => EscapedAt(s, i)

\* C4: in every command generate-video builds, each path and each derived
\* string stands between quotes and holds no unescaped occurrence of a quote
\* that would end them: no double quote in a value between the shell's double
\* quotes, and neither quote in a value between the filter's single quotes.
CommandQuotingSafe ==
    \A k \in 1..Len(videoLog) :
        LET parts == videoLog[k].parts
        IN  \A i \in 1..Len(parts) :
              /\ parts[i].kind = "dq" =>
                    /\ QuotesEscaped(parts[i].text, "\"")
                    /\ parts[i - 1].text = <<"\"">> /\ parts[i + 1].text = <<"\"">>
              /\ parts[i].kind = "sq" =>
                    /\ QuotesEscaped(parts[i].text, "\"")
                    /\ QuotesEscaped(parts[i].text, "'")

PortraitRequested(req) == req.aspectRatio = Absent \/ req.aspectRatio = Portrait

PartsOfKind(parts, kind) == {parts[i].text : i \in {j \in 1..Len(parts) : parts[j].kind = kind}}

\* C6: every command generate-video builds uses one frame size, 1080:1920 when
\* the aspect ratio is "9:16" or absent and 1920:1080 otherwise, and its style
\* string, present when subtitles are burnt in, carries MarginV=60 with the
\* former and MarginV=40 with the latter.
AspectPairing ==
    \A k \in 1..Len(videoLog) :
        LET r == videoLog[k]
            sizes == PartsOfKind(r.parts, "size")
            margins == PartsOfKind(r.parts, "margin")
        IN  r.executed =>
              /\ (r.req.withSubtitles /\ Truthy(r.req.srtPath)) = (margins # {})
              /\ IF PortraitRequested(r.req)
                 THEN sizes = {<<"1080:1920">>} /\ margins \subseteq {<<"6", "0">>}
                 ELSE sizes = {<<"1920:1080">>} /\ margins \subseteq {<<"4", "0">>}

\* a command with subtitles has been built for the unrecognised ratio 4:3,
\* with frame 1920:1080 and MarginV=40
AspectPairingWitness ==
    \E k \in 1..Len(videoLog) :
        /\ videoLog[k].req.aspectRatio = <<"4", ":", "3">>
        /\ PartsOfKind(videoLog[k].parts, "size") = {<<"1920:1080">>}
        /\ PartsOfKind(videoLog[k].parts, "margin") = {<<"4", "0">>}

\* C9: generate-video and generate-cover answer success only if the external
\* process exited zero and the expected output file exists afterwards.
SuccessNeedsArtifact ==
    /\ \A k \in 1..Len(videoLog) :
          videoLog[k].status = 200 => videoLog[k].exitZero /\ videoLog[k].artifact
    /\ \A k \in 1..Len(coverLog) :
          coverLog[k].status = 200 => coverLog[k].exitZero /\ coverLog[k].imagePath # <<>>

\* C8 as claimed: two requests with the same body build the same command text
\* and the same output path, whenever they are handled and whether or not an
\* original file name is supplied.
CommandDeterministic ==
    \A i \in 1..Len(videoLog) : \A j \in 1..Len(videoLog) :
        (videoLog[i].req = videoLog[j].req /\ videoLog[i].executed) =>
            /\ CommandText(videoLog[i].parts) = CommandText(videoLog[j].parts)
            /\ videoLog[i].outputPath = videoLog[j].outputPath

\* C8 as amended: two requests with the same body and a non-empty original
\* file name build the same command text and the same output path whenever
\* they are handled; with the original file name absent or empty the output
\* is named video-<clock>, and the two commands and paths are the same exactly
\* when the clock read the same millisecond at both.
CommandDeterministicWhenNamed ==
    \A i \in 1..Len(videoLog) : \A j \in 1..Len(videoLog) :
        (videoLog[i].req = videoLog[j].req /\ videoLog[i].executed) =>
            IF Truthy(videoLog[i].req.originalFilename)
            THEN /\ CommandText(videoLog[i].parts) = CommandText(videoLog[j].parts)
                 /\ videoLog[i].outputPath = videoLog[j].outputPath
            ELSE /\ (videoLog[i].outputPath = videoLog[j].outputPath)
                        = (videoLog[i].at = videoLog[j].at)
                 /\ (CommandText(videoLog[i].parts) = CommandText(videoLog[j].parts))
                        = (videoLog[i].at = videoLog[j].at)

\* the same body, with an original file name, handled at two different
\* milliseconds, and the same command built
CommandDeterministicWitness ==
    /\ Len(videoLog) = 2
    /\ videoLog[1].req = videoLog[2].req
    /\ videoLog[1].req.originalFilename = <<"d", "/", "x", "\"", ".", "m">>
    /\ videoLog[1].at # videoLog[2].at
    /\ CommandText(videoLog[1].parts) = CommandText(videoLog[2].parts)
    /\ EndsWith(videoLog[2].outputPath,
                <<"/", "pimsleur <daily-english-dialogue>-", "x", "\"", ".mp4">>)

(***************************************************************************)
(* /api/generate-cover and /api/upload-cover in any order                  *)
(***************************************************************************)

MaxCoverRequests == 3
MaxCoverElapsed == 1

CoverRequests ==
    [title : {<<"t">>}, customPrompt : {Absent, <<"p", "\"">>},
     aspectRatio : {Absent, <<"1", "6", ":", "9">>}]

ToolRuns ==
    {[exit |-> 1, writes |-> FALSE, ext |-> <<>>],
     [exit |-> 0, writes |-> FALSE, ext |-> <<>>],
     [exit |-> 0, writes |-> TRUE, ext |-> <<>>],
     [exit |-> 0, writes |-> TRUE, ext |-> <<".png">>],
     [exit |-> 0, writes |-> TRUE, ext |-> <<".jpg">>]}

InitCover ==
    /\ fn = "cover"
    /\ arg = Absent
    /\ ret = <<>>
    /\ AlignIdle

HandleGenerateCover ==
    /\ requests < MaxCoverRequests
    /\ \E req \in CoverRequests, tool \in ToolRuns : GenerateCover(req, tool)

HandleUploadCover ==
    /\ requests < MaxCoverRequests
    /\ \E hasFile \in BOOLEAN : UploadCover(hasFile)

TickCover ==
    /\ Tick(1, MaxCoverElapsed)
    /\ UNCHANGED <<fn, arg, ret, alignRes, authLog, videoLog, videoFiles, coverVars>>

NextCover == HandleUploadCover \/ HandleGenerateCover \/ TickCover

SpecCover == InitCover /\ [][NextCover]_vars

\* C10: the file a generate-cover request answers with is the file its own
\* run of the image generator wrote, and a run that wrote nothing is not
\* answered with success.
CoverServedIsOwn ==
    \A k \in 1..Len(coverLog) :
        coverLog[k].status = 200 =>
            /\ coverLog[k].written # <<>>
            /\ coverLog[k].imagePath = coverLog[k].written
            /\ coverLog[k].servedWriter = coverLog[k].id

====
